---- MODULE Spec2Model ----
(***************************************************************************)
(* The MusicXML timeline reconstruction engine: the parser state, the      *)
(* element walk of Measure._parse, the time-signature inference of         *)
(* Measure._fix_time_signature, and the aggregation and recalculation      *)
(* methods of MusicXMLDocument.                                            *)
(*                                                                         *)
(* The document is not given in advance: each step reveals the next child  *)
(* element of the measure being parsed (or closes the measure or the       *)
(* part), so the reachable states are the parser's states over every       *)
(* document within the bounds.                                             *)
(*                                                                         *)
(* Python floats are binary floating-point numbers rounded to nearest,     *)
(* ties to even.  The model keeps that arithmetic, operation by operation, *)
(* at a significand of MantissaBits bits (binary64 has 53).                *)
(***************************************************************************)
EXTENDS Integers, Sequences, FiniteSets, TLC

\* ---------------------------------------------------------------- bounds
MantissaBits == 10
MaxParts == 2
MaxMeasures == 2
MaxElements == 3
MaxTimelineElements == 4
MaxKindElements == 2

\* ------------------------------------------------------- program constants
STANDARD_PPQ == 220
DEFAULT_QPM == 120
DEFAULT_DIVISIONS == 1
DEFAULT_VELOCITY == 64

\* ----------------------------------------------------------- input alphabets
DivisionsTexts == {"-1", "0", "2", "3", "1.5"}
Durations == {1, 3}
NoteDurations == {1, 2}
RunLengths == {3, 4}
TempoValues == {60, 90}
DynamicsValues == {80}
TimeValues == {<<4, 4>>, <<3, 4>>}
KeyValues == {-6, 0, 5, 6}
ChromaticValues == {-2, 1, 2}
ChordKinds == {"C", "G7"}

\* --------------------------------------------------------------- optionals
None == <<>>
Some(x) == <<x>>
IsNone(o) == o = <<>>
The(o) == o[1]

\* ------------------------------------------------------ integer arithmetic
Abs(x) == IF x < 0 THEN -x ELSE x
Sign(x) == IF x < 0 THEN -1 ELSE IF x = 0 THEN 0 ELSE 1

RECURSIVE Pow2(_)
Pow2(k) == IF k = 0 THEN 1 ELSE 2 * Pow2(k - 1)

RECURSIVE Gcd(_, _)
Gcd(a, b) == IF b = 0 THEN a ELSE Gcd(b, a % b)

\* Python's a % b for any sign of b (the result has the sign of b).
PyMod(a, b) == IF b > 0 THEN a % b ELSE -((-a) % (-b))

\* ---------------------------------------------------------- float arithmetic
\* A float is m * 2^e with m = 0, or 2^(MantissaBits-1) <= |m| < 2^MantissaBits.
FZero == [m |-> 0, e |-> 0]

\* The significands of the nonzero floats are MinSignificand..MaxSignificand-1.
MaxSignificand == Pow2(MantissaBits)
MinSignificand == Pow2(MantissaBits - 1)

RECURSIVE Normalize(_, _, _)
Normalize(n, b, e) ==
  IF n >= b * MaxSignificand THEN Normalize(n, 2 * b, e + 1)
  ELSE IF n < b * MinSignificand THEN Normalize(2 * n, b, e - 1)
  ELSE <<n, b, e>>

\* The float nearest to (a / b) * 2^e, ties to the even significand (b > 0).
RoundRat(a, b, e) ==
  IF a = 0 THEN FZero
  ELSE LET t == Normalize(Abs(a), b, e)
           q == t[1] \div t[2]
           r == t[1] % t[2]
           up == 2 * r > t[2] \/ (2 * r = t[2] /\ q % 2 = 1)
           m == IF up THEN q + 1 ELSE q
           carry == m = MaxSignificand
       IN [m |-> Sign(a) * (IF carry THEN MinSignificand ELSE m),
           e |-> IF carry THEN t[3] + 1 ELSE t[3]]

FromInt(n) == RoundRat(n, 1, 0)
FNeg(x) == [m |-> -x.m, e |-> x.e]
FMul(x, y) == RoundRat(x.m * y.m, 1, x.e + y.e)
\* x / y for y # 0
FDiv(x, y) == RoundRat(x.m * Sign(y.m), Abs(y.m), x.e - y.e)
FAdd(x, y) ==
  IF x.m = 0 THEN y
  ELSE IF y.m = 0 THEN x
  ELSE IF x.e - y.e > MantissaBits + 2 THEN x
  ELSE IF y.e - x.e > MantissaBits + 2 THEN y
  ELSE LET lo == IF x.e < y.e THEN x.e ELSE y.e
       IN RoundRat(x.m * Pow2(x.e - lo) + y.m * Pow2(y.e - lo), 1, lo)
FSub(x, y) == FAdd(x, FNeg(y))
FLess(x, y) == FSub(x, y).m < 0
\* int / int is the correctly rounded quotient
IntDiv(a, b) == RoundRat(a * Sign(b), Abs(b), 0)


\* ------------------------------------------------------------------ state
VARIABLES
  pc,                   \* where the parse stands: "document", "part", "measure",
                        \* "parsed" (the document is constructed) or "error"
  exception,            \* the exception that ended the parse, or "None"
  state,                \* the MusicXMLParserState shared by every parser
  measure,              \* the Measure under construction
  part,                 \* the measures of the part under construction
  parts,                \* MusicXMLDocument.parts
  total_time_secs,
  total_time_duration,
  call,                 \* the last method called on the constructed document
  ret                   \* and what it returned

vars == <<pc, exception, state, measure, part, parts,
          total_time_secs, total_time_duration, call, ret>>

MusicXMLParserState ==
  [divisions |-> DEFAULT_DIVISIONS,
   qpm |-> FromInt(DEFAULT_QPM),
   seconds_per_quarter |-> RoundRat(1, 2, 0),
   time_position |-> FZero,
   xml_position |-> 0,
   velocity |-> DEFAULT_VELOCITY,
   previous_note |-> None,
   transpose |-> 0,
   time_signature |-> None]

\* Measure.__init__ up to the call of _parse
NewMeasure(s) ==
  [xml_measure |-> <<>>,
   notes |-> <<>>,
   chord_symbols |-> <<>>,
   tempos |-> <<>>,
   time_signature |-> None,
   key_signature |-> None,
   barline |-> "None",
   repeat |-> "None",
   duration |-> 0,
   start_time_position |-> s.time_position,
   start_xml_position |-> s.xml_position]

NoMeasure == NewMeasure(MusicXMLParserState)

\* ---------------------------------------------------------- leaf entities
Tempo(s, qpm) ==
  [qpm |-> FromInt(qpm),
   time_position |-> s.time_position,
   xml_position |-> s.xml_position]

TimeSignature(s, beats, beat_type) ==
  [numerator |-> beats,
   denominator |-> beat_type,
   time_position |-> s.time_position,
   xml_position |-> s.xml_position]

KeySignature(s, fifths) ==
  [key |-> fifths,
   time_position |-> s.time_position,
   xml_position |-> s.xml_position]

\* ------------------------------------------------------- handler outcomes
Ok(s, m) == [state |-> s, measure |-> m, exception |-> "None"]
Raise(s, m, e) == [state |-> s, measure |-> m, exception |-> e]

\* The tick-to-seconds conversion of <backup> and <forward> (divisions # 0).
Seconds(s, duration) ==
  LET midi_ticks == FMul(FromInt(duration), IntDiv(STANDARD_PPQ, s.divisions))
  IN FMul(FDiv(midi_ticks, FromInt(STANDARD_PPQ)), s.seconds_per_quarter)

_parse_backup(s, m, backup_duration) ==
  IF s.divisions = 0 THEN Raise(s, m, "ZeroDivisionError")
  ELSE Ok([s EXCEPT !.time_position = FSub(@, Seconds(s, backup_duration)),
                    !.xml_position = @ - backup_duration], m)

_parse_forward(s, m, forward_duration) ==
  IF s.divisions = 0 THEN Raise(s, m, "ZeroDivisionError")
  ELSE Ok([s EXCEPT !.time_position = FAdd(@, Seconds(s, forward_duration)),
                    !.xml_position = @ + forward_duration], m)

\* A variant of _parse_direction that leaves seconds_per_quarter alone.
_parse_direction_qpm_only(s, m, d) ==
  IF IsNone(d.tempo) THEN Ok(s, m)
  ELSE LET tempo == Tempo(s, The(d.tempo))
           s1 == [s EXCEPT !.qpm = tempo.qpm]
           s2 == IF IsNone(d.dynamics) THEN s1
                 ELSE [s1 EXCEPT !.velocity = The(d.dynamics)]
       IN Ok(s2, [m EXCEPT !.tempos = Append(@, tempo)])

\* A <direction> with one <sound> child; d.tempo and d.dynamics are the
\* optional attributes of the <sound>.
_parse_direction(s, m, d) ==
  IF IsNone(d.tempo) THEN Ok(s, m)
  ELSE LET tempo == Tempo(s, The(d.tempo))
           s1 == [s EXCEPT !.qpm = tempo.qpm,
                           !.seconds_per_quarter = FDiv(FromInt(60), tempo.qpm)]
           s2 == IF IsNone(d.dynamics) THEN s1
                 ELSE [s1 EXCEPT !.velocity = The(d.dynamics)]
       IN Ok(s2, [m EXCEPT !.tempos = Append(@, tempo)])

\* Note(child, direction, state): a chord note starts with the previous note
\* and leaves the clocks alone; any other note starts at the clocks and
\* advances them by its duration.
Note(s, n) ==
  IF n.is_in_chord /\ ~IsNone(s.previous_note)
  THEN [voice |-> n.voice, is_in_chord |-> TRUE, duration |-> n.duration,
        xml_position |-> The(s.previous_note).xml_position,
        time_position |-> The(s.previous_note).time_position]
  ELSE [voice |-> n.voice, is_in_chord |-> n.is_in_chord, duration |-> n.duration,
        xml_position |-> s.xml_position,
        time_position |-> s.time_position]

\* The parser state when Note(child, direction, state) returns (divisions # 0).
NoteClocks(s, n) ==
  IF n.is_in_chord THEN s
  ELSE [s EXCEPT !.time_position = FAdd(@, Seconds(s, n.duration)),
                 !.xml_position = @ + n.duration]

_parse_note(s, m, n) ==
  IF s.divisions = 0 THEN Raise(s, m, "ZeroDivisionError")
  ELSE LET note == Note(s, n)
           s1 == NoteClocks(s, n)
       IN Ok([s1 EXCEPT !.previous_note = Some(note)],
             [m EXCEPT !.notes = Append(@, note),
                       !.duration = IF note.voice = 1 /\ ~note.is_in_chord
                                    THEN @ + note.duration ELSE @])

RECURSIVE _parse_notes(_, _, _, _)
_parse_notes(s, m, n, count) ==
  IF count = 0 THEN Ok(s, m)
  ELSE LET r == _parse_note(s, m, n)
       IN IF r.exception # "None" THEN r
          ELSE _parse_notes(r.state, r.measure, n, count - 1)


\* ------------------------------------------------------------- <attributes>
\* int(child.text) of a <divisions> element
IsIntText(text) == text \in {"-1", "0", "2", "3"}
int(text) == CASE text = "-1" -> -1
               [] text = "0" -> 0
               [] text = "2" -> 2
               [] text = "3" -> 3

_parse_divisions(s, m, text) ==
  IF ~IsIntText(text) THEN Raise(s, m, "ValueError")
  ELSE Ok([s EXCEPT !.divisions = int(text)], m)

_parse_key(s, m, fifths) ==
  Ok(s, [m EXCEPT !.key_signature = Some(KeySignature(s, fifths))])

\* A variant of _parse_time that tests the global signature.
_parse_time_global(s, m, beats, beat_type) ==
  IF IsNone(s.time_signature)
  THEN LET ts == TimeSignature(s, beats, beat_type)
       IN Ok([s EXCEPT !.time_signature = Some(ts)],
             [m EXCEPT !.time_signature = Some(ts)])
  ELSE Raise(s, m, "MultipleTimeSignatureException")

_parse_time(s, m, beats, beat_type) ==
  IF IsNone(m.time_signature)
  THEN LET ts == TimeSignature(s, beats, beat_type)
       IN Ok([s EXCEPT !.time_signature = Some(ts)],
             [m EXCEPT !.time_signature = Some(ts)])
  ELSE Raise(s, m, "MultipleTimeSignatureException")

\* A variant of TransposeKey that wraps with a positive modulus.
TransposeKeyPositive(key, transpose) ==
  LET key_transpose == PyMod(transpose * (-5), 12)
      new_key == key + key_transpose
  IN IF new_key > 6 THEN PyMod(new_key, 6) ELSE new_key

\* The key (on the circle of fifths) after a chromatic transposition.
TransposeKey(key, transpose) ==
  LET key_transpose == PyMod(transpose * (-5), 12)
      new_key == key + key_transpose
  IN IF new_key > 6 THEN PyMod(new_key, -6) ELSE new_key

_parse_transpose(s, m, transpose) ==
  LET s1 == [s EXCEPT !.transpose = transpose]
  IN IF IsNone(m.key_signature) THEN Ok(s1, m)
     ELSE Ok(s1, [m EXCEPT !.key_signature =
                    Some([The(@) EXCEPT !.key = TransposeKey(@, transpose)])])

\* ---------------------------------------------------------------- <barline>
\* b.style is the text of the <bar-style> child, if there is one; b.repeat
\* the direction attribute of the <repeat> child, if there is one.
_parse_barline(s, m, b) ==
  IF IsNone(b.style) THEN Raise(s, m, "AttributeError")
  ELSE IF The(b.style) = "light-light" THEN Ok(s, [m EXCEPT !.barline = "double"])
  ELSE IF The(b.style) = "light-heavy" THEN Ok(s, [m EXCEPT !.barline = "final"])
  ELSE IF ~IsNone(b.repeat)
  THEN IF The(b.repeat) = "forward" THEN Ok(s, [m EXCEPT !.repeat = "start"])
       ELSE IF The(b.repeat) = "backword" THEN Ok(s, [m EXCEPT !.repeat = "end"])
       ELSE Ok(s, m)
  ELSE Ok(s, m)

\* ---------------------------------------------------------------- <harmony>
ChordSymbol(s, kind) ==
  [kind |-> kind, time_position |-> s.time_position, xml_position |-> s.xml_position]

_parse_harmony(s, m, kind) ==
  Ok(s, [m EXCEPT !.chord_symbols = Append(@, ChordSymbol(s, kind))])

\* ------------------------------------------------------ _fix_time_signature
\* A variant of Fraction that keeps the pair as given.
FractionUnreduced(n, d) == [numerator |-> n, denominator |-> d]

\* fractions.Fraction(n, d) for d # 0: lowest terms, positive denominator
Fraction(n, d) ==
  LET g == Gcd(Abs(n), Abs(d))
  IN [numerator |-> Sign(d) * (n \div g), denominator |-> Abs(d) \div g]

\* A variant of ShouldInsert that forgets what the measure declared.
ShouldInsertOnMismatch(pickup_measure, time_signature, fraction, state_fraction) ==
  pickup_measure \/ fraction # state_fraction

\* A variant of ShouldInsert that forgets the pickup test.
ShouldInsertUndeclaredOnly(pickup_measure, time_signature, fraction, state_fraction) ==
  IsNone(time_signature) /\ fraction # state_fraction

\* "Insert a new time signature only if it does not equal the global time
\* signature."
ShouldInsert(pickup_measure, time_signature, fraction, state_fraction) ==
  pickup_measure \/ (IsNone(time_signature) /\ fraction # state_fraction)

_fix_time_signature(s, m) ==
  LET numerator == m.duration
      denominator == s.divisions * 4
  IN
  IF denominator = 0 THEN Raise(s, m, "ZeroDivisionError")
  ELSE
  LET fractional_time_signature == Fraction(numerator, denominator)
  IN
  IF IsNone(s.time_signature) /\ IsNone(m.time_signature)
  THEN LET ts == [TimeSignature(s, 1, 4) EXCEPT
                    !.numerator = fractional_time_signature.numerator,
                    !.denominator = fractional_time_signature.denominator]
       IN Ok([s EXCEPT !.time_signature = Some(ts)],
             [m EXCEPT !.time_signature = Some(ts)])
  ELSE
  LET global == The(s.time_signature)
      fractional_state_time_signature ==
        Fraction(global.numerator, global.denominator)
      pickup_measure == numerator < global.numerator
      global_time_signature_denominator == global.denominator
      new_time_sig_fraction == Fraction(numerator, denominator)
      synthesized ==
        IF fractional_time_signature = Fraction(1, 1) /\ ~pickup_measure
        THEN <<global_time_signature_denominator,
               global_time_signature_denominator>>
        ELSE IF new_time_sig_fraction = fractional_time_signature
        THEN <<fractional_time_signature.numerator,
               fractional_time_signature.denominator>>
        ELSE <<numerator, denominator>>
      new_time_signature ==
        [numerator |-> synthesized[1],
         denominator |-> synthesized[2],
         time_position |-> m.start_time_position,
         xml_position |-> m.start_xml_position]
  IN
  IF ShouldInsert(pickup_measure, m.time_signature,
                  fractional_time_signature, fractional_state_time_signature)
  THEN Ok([s EXCEPT !.time_signature = Some(new_time_signature)],
          [m EXCEPT !.time_signature = Some(new_time_signature)])
  ELSE Ok(s, m)


\* --------------------------------------------------------- MusicXMLDocument
RECURSIVE Concat(_)
Concat(ss) == IF ss = <<>> THEN <<>> ELSE Head(ss) \o Concat(Tail(ss))

\* A variant of get_tempos whose default tempo stands at the clocks.
get_tempos_at_clocks(ps, s) ==
  LET tempos == IF ps # <<>>
                THEN Concat([i \in 1..Len(ps[1]) |-> ps[1][i].tempos])
                ELSE <<>>
  IN IF tempos = <<>>
     THEN <<[qpm |-> s.qpm, time_position |-> s.time_position,
             xml_position |-> s.xml_position]>>
     ELSE tempos

\* The tempos of the first part in measure order, or the default tempo.
get_tempos(ps, s) ==
  LET tempos == IF ps # <<>>
                THEN Concat([i \in 1..Len(ps[1]) |-> ps[1][i].tempos])
                ELSE <<>>
  IN IF tempos = <<>>
     THEN <<[qpm |-> s.qpm, time_position |-> FZero, xml_position |-> 0]>>
     ELSE tempos

\* ------------------------------------------------------------- aggregation
\* `x not in list` compares with ==: chord symbols and key signatures by
\* value, time signatures by their (numerator, denominator) pair.
ChordSymbolEq(a, b) == a = b
TimeSignatureEq(a, b) == a.numerator = b.numerator /\ a.denominator = b.denominator
KeySignatureEq(a, b) == a = b

\* The loops of get_chord_symbols over the chord symbols still to scan.
RECURSIVE ScanChordSymbols(_, _)
ScanChordSymbols(entries, chord_symbols) ==
  IF entries = <<>> THEN chord_symbols
  ELSE ScanChordSymbols(Tail(entries),
         IF ~\E i \in DOMAIN chord_symbols : ChordSymbolEq(Head(entries), chord_symbols[i])
         THEN Append(chord_symbols, Head(entries))
         ELSE chord_symbols)

get_chord_symbols(ps) ==
  LET ms == Concat(ps)
  IN ScanChordSymbols(Concat([i \in 1..Len(ms) |-> ms[i].chord_symbols]), <<>>)

\* A variant of ScanTimeSignatures without the membership test.
RECURSIVE ScanTimeSignaturesAll(_, _)
ScanTimeSignaturesAll(ms, time_signatures) ==
  IF ms = <<>> THEN time_signatures
  ELSE ScanTimeSignaturesAll(Tail(ms),
         IF ~IsNone(Head(ms).time_signature)
         THEN Append(time_signatures, The(Head(ms).time_signature))
         ELSE time_signatures)

\* The loops of get_time_signatures over the measures still to scan.
RECURSIVE ScanTimeSignatures(_, _)
ScanTimeSignatures(ms, time_signatures) ==
  IF ms = <<>> THEN time_signatures
  ELSE ScanTimeSignatures(Tail(ms),
         IF /\ ~IsNone(Head(ms).time_signature)
            /\ ~\E i \in DOMAIN time_signatures :
                  TimeSignatureEq(The(Head(ms).time_signature), time_signatures[i])
         THEN Append(time_signatures, The(Head(ms).time_signature))
         ELSE time_signatures)

get_time_signatures(ps) == ScanTimeSignatures(Concat(ps), <<>>)

\* The loops of get_key_signatures over the measures still to scan.
RECURSIVE ScanKeySignatures(_, _)
ScanKeySignatures(ms, key_signatures) ==
  IF ms = <<>> THEN key_signatures
  ELSE ScanKeySignatures(Tail(ms),
         IF /\ ~IsNone(Head(ms).key_signature)
            /\ ~\E i \in DOMAIN key_signatures :
                  KeySignatureEq(The(Head(ms).key_signature), key_signatures[i])
         THEN Append(key_signatures, The(Head(ms).key_signature))
         ELSE key_signatures)

\* KeySignature(state) without an element is C major.
get_key_signatures(ps, s) ==
  LET key_signatures == ScanKeySignatures(Concat(ps), <<>>)
  IN IF key_signatures = <<>>
     THEN <<[KeySignature(s, 0) EXCEPT !.time_position = FZero, !.xml_position = 0]>>
     ELSE key_signatures

\* ------------------------------------------------- recalculate_time_position
\* The tempos get_tempos returns, each with the place of the Tempo object it
\* is: measure mi of the first part, index ti of its tempos; <<0, 0>> is the
\* default tempo, which no measure holds.
TempoRefs(ps, s) ==
  LET refs == IF ps # <<>>
              THEN Concat([i \in 1..Len(ps[1]) |->
                             [j \in 1..Len(ps[1][i].tempos) |->
                                [ref |-> <<i, j>>, tempo |-> ps[1][i].tempos[j]]]])
              ELSE <<>>
  IN IF refs = <<>> THEN <<[ref |-> <<0, 0>>, tempo |-> get_tempos(ps, s)[1]]>>
     ELSE refs

\* list.sort(key=lambda x: x.xml_position): stable
RECURSIVE InsertSorted(_, _)
InsertSorted(sorted, x) ==
  IF sorted = <<>> THEN <<x>>
  ELSE IF x.tempo.xml_position < Head(sorted).tempo.xml_position
       THEN <<x>> \o sorted
       ELSE <<Head(sorted)>> \o InsertSorted(Tail(sorted), x)

RECURSIVE SortTempos(_)
SortTempos(refs) ==
  IF refs = <<>> THEN <<>>
  ELSE InsertSorted(SortTempos(SubSeq(refs, 1, Len(refs) - 1)), refs[Len(refs)])

\* A variant of AssignTempoTimes that adds to the time positions.
RECURSIVE AssignTempoTimesAdding(_, _, _, _)
AssignTempoTimesAdding(tempos, i, ntp, divisions) ==
  IF i > Len(tempos) THEN tempos
  ELSE LET t1 == [tempos EXCEPT ![i].tempo.time_position = FAdd(@, ntp)]
       IN IF i + 1 > Len(tempos) THEN t1
          ELSE IF divisions = 0 THEN t1
          ELSE AssignTempoTimesAdding(t1, i + 1,
                 FAdd(ntp,
                      FDiv(FMul(FDiv(FromInt(tempos[i + 1].tempo.xml_position
                                             - tempos[i].tempo.xml_position),
                                     tempos[i].tempo.qpm),
                                FromInt(60)),
                           FromInt(divisions))),
                 divisions)

\* The first loop: tempos[i].time_position for i = from..len, where the
\* running new_time_position is ntp on entry.  With divisions = 0 the loop
\* raises after its first assignment.
RECURSIVE AssignTempoTimes(_, _, _, _)
AssignTempoTimes(tempos, i, ntp, divisions) ==
  IF i > Len(tempos) THEN tempos
  ELSE LET t1 == [tempos EXCEPT ![i].tempo.time_position = ntp]
       IN IF i + 1 > Len(tempos) THEN t1
          ELSE IF divisions = 0 THEN t1
          ELSE AssignTempoTimes(t1, i + 1,
                 FAdd(ntp,
                      FDiv(FMul(FDiv(FromInt(tempos[i + 1].tempo.xml_position
                                             - tempos[i].tempo.xml_position),
                                     tempos[i].tempo.qpm),
                                FromInt(60)),
                           FromInt(divisions))),
                 divisions)

\* The index the inner loop over the tempos stops at for a note at tick p.
RECURSIVE TempoIndex(_, _, _)
TempoIndex(tempos, p, i) ==
  IF i = Len(tempos) THEN i
  ELSE IF tempos[i].tempo.xml_position <= p /\ tempos[i + 1].tempo.xml_position > p
       THEN i
       ELSE TempoIndex(tempos, p, i + 1)

NoteTimePosition(tempos, p, divisions) ==
  LET i == TempoIndex(tempos, p, 1)
      current_tempo == FDiv(FMul(tempos[i].tempo.qpm, FromInt(60)), FromInt(divisions))
  IN FAdd(tempos[i].tempo.time_position,
          FDiv(FromInt(p - tempos[i].tempo.xml_position), current_tempo))

HasNotes(ps) ==
  \E i \in 1..Len(ps) : \E j \in 1..Len(ps[i]) : ps[i][j].notes # <<>>

\* The parts after recalculate_time_position, and the exception it raised.
recalculate_time_position(ps, s) ==
  LET sorted == SortTempos(TempoRefs(ps, s))
      tempos == AssignTempoTimes(sorted, 1, FZero, s.divisions)
      failed_in_tempos == s.divisions = 0 /\ Len(sorted) > 1
      failed_in_notes == s.divisions = 0 /\ HasNotes(ps)
      TimeOf(i, j) ==
        (CHOOSE t \in {tempos[k] : k \in 1..Len(tempos)} : t.ref = <<i, j>>)
          .tempo.time_position
      NewMeasureOf(i, j) ==
        LET m == ps[i][j]
            m1 == IF i = 1
                  THEN [m EXCEPT !.tempos =
                          [k \in 1..Len(m.tempos) |->
                             [m.tempos[k] EXCEPT !.time_position = TimeOf(j, k)]]]
                  ELSE m
        IN IF s.divisions = 0 THEN m1
           ELSE [m1 EXCEPT !.notes =
                   [k \in 1..Len(m.notes) |->
                      [m.notes[k] EXCEPT !.time_position =
                         NoteTimePosition(tempos, m.notes[k].xml_position,
                                          s.divisions)]]]
  IN [parts |-> [i \in 1..Len(ps) |-> [j \in 1..Len(ps[i]) |-> NewMeasureOf(i, j)]],
      exception |-> IF failed_in_tempos \/ failed_in_notes
                    THEN "ZeroDivisionError" ELSE "None"]


\* ------------------------------------------------------------------ actions
Init ==
  /\ pc = "document"
  /\ exception = "None"
  /\ state = MusicXMLParserState
  /\ measure = NoMeasure
  /\ part = <<>>
  /\ parts = <<>>
  /\ total_time_secs = FZero
  /\ total_time_duration = 0
  /\ call = "None"
  /\ ret = <<>>

RECURSIVE SumLen(_)
SumLen(ms) == IF ms = <<>> THEN 0 ELSE Len(Head(ms).xml_measure) + SumLen(Tail(ms))

\* The number of measure children read so far in the whole document, a
\* run of like notes counting as one.
ElementsRead == SumLen(Concat(parts)) + SumLen(part) + Len(measure.xml_measure)

\* The number of measures constructed so far in the whole document.
MeasuresRead == Len(Concat(parts)) + Len(part)

\* Part.__init__: the clocks restart with every part.
BeginPart ==
  /\ pc = "document"
  /\ Len(parts) < MaxParts
  /\ pc' = "part"
  /\ part' = <<>>
  /\ state' = [state EXCEPT !.time_position = FZero, !.xml_position = 0]
  /\ UNCHANGED <<exception, measure, parts, total_time_secs, total_time_duration,
                 call, ret>>

BeginMeasure ==
  /\ pc = "part"
  /\ MeasuresRead < MaxMeasures
  /\ pc' = "measure"
  /\ measure' = NewMeasure(state)
  /\ UNCHANGED <<exception, state, part, parts, total_time_secs,
                 total_time_duration, call, ret>>

\* One iteration of the loop of Measure._parse (for an <attributes> child, of
\* the loop of _parse_attributes; for a run of like notes, one iteration for
\* each): the children read, with outcome r.
ChildWithin(limit, children, r) ==
  /\ pc = "measure"
  /\ ElementsRead + Len(children) <= limit
  /\ state' = r.state
  /\ measure' = [r.measure EXCEPT !.xml_measure = @ \o children]
  /\ exception' = r.exception
  /\ pc' = IF r.exception = "None" THEN "measure" ELSE "error"
  /\ UNCHANGED <<part, parts, total_time_secs, total_time_duration, call, ret>>

Child(children, r) == ChildWithin(MaxElements, children, r)

ParseDivisionsWithin(limit, texts) ==
  \E text \in texts :
    ChildWithin(limit,
                <<[tag |-> "divisions", text |-> text]>>,
                _parse_divisions(state, measure, text))

ParseDivisions(texts) == ParseDivisionsWithin(MaxElements, texts)

ParseKeyWithin(limit, keys) ==
  \E fifths \in keys :
    ChildWithin(limit,
                <<[tag |-> "key", fifths |-> fifths]>>,
                _parse_key(state, measure, fifths))

ParseKey(keys) == ParseKeyWithin(MaxElements, keys)

ParseTimeWithin(limit, times) ==
  \E t \in times :
    ChildWithin(limit,
                <<[tag |-> "time", beats |-> t[1], beat_type |-> t[2]]>>,
                _parse_time(state, measure, t[1], t[2]))

ParseTime(times) == ParseTimeWithin(MaxElements, times)

ParseTransposeWithin(limit, chromatics) ==
  \E chromatic \in chromatics :
    ChildWithin(limit,
                <<[tag |-> "transpose", chromatic |-> chromatic]>>,
                _parse_transpose(state, measure, chromatic))

ParseTranspose(chromatics) == ParseTransposeWithin(MaxElements, chromatics)

ParseBackupWithin(limit, durations) ==
  \E duration \in durations :
    ChildWithin(limit,
                <<[tag |-> "backup", duration |-> duration]>>,
                _parse_backup(state, measure, duration))

ParseBackup(durations) == ParseBackupWithin(MaxElements, durations)

ParseForwardWithin(limit, durations) ==
  \E duration \in durations :
    ChildWithin(limit,
                <<[tag |-> "forward", duration |-> duration]>>,
                _parse_forward(state, measure, duration))

ParseForward(durations) == ParseForwardWithin(MaxElements, durations)

ParseDirectionWithin(limit, directions) ==
  \E d \in directions :
    ChildWithin(limit,
                <<[tag |-> "direction", tempo |-> d.tempo, dynamics |-> d.dynamics]>>,
                _parse_direction(state, measure, d))

ParseDirection(directions) == ParseDirectionWithin(MaxElements, directions)

ParseBarlineWithin(limit, barlines) ==
  \E b \in barlines :
    ChildWithin(limit,
                <<[tag |-> "barline", style |-> b.style, repeat |-> b.repeat]>>,
                _parse_barline(state, measure, b))

ParseBarline(barlines) == ParseBarlineWithin(MaxElements, barlines)

ParseHarmonyWithin(limit, kinds) ==
  \E kind \in kinds :
    ChildWithin(limit,
                <<[tag |-> "harmony", kind |-> kind]>>,
                _parse_harmony(state, measure, kind))

ParseHarmony(kinds) == ParseHarmonyWithin(MaxElements, kinds)

\* `count` consecutive <note> children that are alike, which xml_measure
\* holds as one entry
ParseNoteWithin(limit, notes, counts) ==
  \E n \in notes, count \in counts :
    ChildWithin(limit,
                <<[tag |-> "note", voice |-> n.voice, is_in_chord |-> n.is_in_chord,
                   duration |-> n.duration, count |-> count]>>,
                _parse_notes(state, measure, n, count))

ParseNote(notes, counts) == ParseNoteWithin(MaxElements, notes, counts)

\* Any other tag is ignored.
ParseOtherWithin(limit) ==
  ChildWithin(limit, <<[tag |-> "print"]>>, Ok(state, measure))

ParseOther == ParseOtherWithin(MaxElements)

\* The end of Measure.__init__, and the part's append of the new measure.
EndMeasure ==
  /\ pc = "measure"
  /\ LET r == _fix_time_signature(state, measure)
     IN /\ state' = r.state
        /\ exception' = r.exception
        /\ IF r.exception = "None"
           THEN /\ pc' = "part"
                /\ part' = Append(part, r.measure)
                /\ measure' = NoMeasure
           ELSE /\ pc' = "error"
                /\ part' = part
                /\ measure' = r.measure
  /\ UNCHANGED <<parts, total_time_secs, total_time_duration, call, ret>>

\* A variant of EndPart that keeps the last part's clocks as the totals.
EndPartLast ==
  /\ pc = "part"
  /\ pc' = "document"
  /\ parts' = Append(parts, part)
  /\ part' = <<>>
  /\ total_time_secs' = state.time_position
  /\ total_time_duration' = state.xml_position
  /\ UNCHANGED <<exception, state, measure, call, ret>>

\* MusicXMLDocument._parse after Part(...) returns
EndPart ==
  /\ pc = "part"
  /\ pc' = "document"
  /\ parts' = Append(parts, part)
  /\ part' = <<>>
  /\ total_time_secs' = IF FLess(total_time_secs, state.time_position)
                        THEN state.time_position ELSE total_time_secs
  /\ total_time_duration' = IF state.xml_position > total_time_duration
                            THEN state.xml_position ELSE total_time_duration
  /\ UNCHANGED <<exception, state, measure, call, ret>>

\* MusicXMLDocument.__init__ returns.
EndDocument ==
  /\ pc = "document"
  /\ pc' = "parsed"
  /\ UNCHANGED <<exception, state, measure, part, parts, total_time_secs,
                 total_time_duration, call, ret>>

GetTempos ==
  /\ pc = "parsed"
  /\ call' = "get_tempos"
  /\ ret' = get_tempos(parts, state)
  /\ exception' = "None"
  /\ UNCHANGED <<pc, state, measure, part, parts, total_time_secs,
                 total_time_duration>>

GetChordSymbols ==
  /\ pc = "parsed"
  /\ call' = "get_chord_symbols"
  /\ ret' = get_chord_symbols(parts)
  /\ exception' = "None"
  /\ UNCHANGED <<pc, state, measure, part, parts, total_time_secs,
                 total_time_duration>>

GetTimeSignatures ==
  /\ pc = "parsed"
  /\ call' = "get_time_signatures"
  /\ ret' = get_time_signatures(parts)
  /\ exception' = "None"
  /\ UNCHANGED <<pc, state, measure, part, parts, total_time_secs,
                 total_time_duration>>

GetKeySignatures ==
  /\ pc = "parsed"
  /\ call' = "get_key_signatures"
  /\ ret' = get_key_signatures(parts, state)
  /\ exception' = "None"
  /\ UNCHANGED <<pc, state, measure, part, parts, total_time_secs,
                 total_time_duration>>

RecalculateTimePosition ==
  /\ pc = "parsed"
  /\ LET r == recalculate_time_position(parts, state)
     IN /\ parts' = r.parts
        /\ exception' = r.exception
  /\ call' = "recalculate_time_position"
  /\ ret' = <<>>
  /\ UNCHANGED <<pc, state, measure, part, total_time_secs, total_time_duration>>

\* ------------------------------------------------------------ specifications
Directions(tempos, dynamics) ==
  {[tempo |-> None, dynamics |-> None]}
    \cup {[tempo |-> Some(q), dynamics |-> None] : q \in tempos}
    \cup {[tempo |-> Some(q), dynamics |-> Some(v)] : q \in tempos, v \in dynamics}

Notes(voices, chords, durations) ==
  {[voice |-> v, is_in_chord |-> c, duration |-> d] :
     v \in voices, c \in chords, d \in durations}

Barlines ==
  {[style |-> st, repeat |-> r] :
     st \in {None, Some("light-light"), Some("light-heavy"), Some("regular")},
     r \in {None, Some("forward"), Some("backward"), Some("backword")}}

Document == BeginPart \/ BeginMeasure \/ EndMeasure \/ EndPart \/ EndDocument

Next ==
  \/ Document
  \/ ParseDivisions(DivisionsTexts)
  \/ ParseKey(KeyValues)
  \/ ParseTime(TimeValues)
  \/ ParseTranspose(ChromaticValues)
  \/ ParseBackup(Durations)
  \/ ParseForward(Durations)
  \/ ParseDirection(Directions(TempoValues, DynamicsValues))
  \/ ParseBarline(Barlines)
  \/ ParseHarmony(ChordKinds)
  \/ ParseNote(Notes({1, 2}, BOOLEAN, NoteDurations), {1} \cup RunLengths)
  \/ ParseOther
  \/ GetChordSymbols
  \/ GetTimeSignatures
  \/ GetKeySignatures
  \/ GetTempos
  \/ RecalculateTimePosition

Spec == Init /\ [][Next]_vars

\* Documents of clock-moving elements: tempo directions, forward, backup
\* and plain notes.
TempoDirections == Directions(TempoValues, {}) \ Directions({}, {})
PlainNotes == Notes({1}, {FALSE}, {1})

NextWalk ==
  \/ Document
  \/ ParseBackup({3})
  \/ ParseForward({1})
  \/ ParseDirection(TempoDirections)
  \/ ParseNote(PlainNotes, {1})

SpecWalk == Init /\ [][NextWalk]_vars

\* The same documents without <forward>, and the calls of get_tempos and
\* recalculate_time_position on the constructed document.
NextTempo ==
  \/ Document
  \/ ParseBackup({3})
  \/ ParseDirection(TempoDirections)
  \/ ParseNote(PlainNotes, {1})
  \/ GetTempos
  \/ RecalculateTimePosition

SpecTempo == Init /\ [][NextTempo]_vars

\* Documents of divisions, time signatures and voice-1 notes.
NextSignature ==
  \/ Document
  \/ ParseDivisions({"0", "2", "-1"})
  \/ ParseTime(TimeValues)
  \/ ParseNote(PlainNotes, {1} \cup RunLengths)

SpecSignature == Init /\ [][NextSignature]_vars

\* Documents of key signatures, transpositions and time signatures.
NextAttributes ==
  \/ Document
  \/ ParseKey(KeyValues)
  \/ ParseTranspose(ChromaticValues)
  \/ ParseTime({<<4, 4>>})

SpecAttributes == Init /\ [][NextAttributes]_vars

\* Longer documents of tempo directions and plain notes, and the call of
\* recalculate_time_position.
NextTimeline ==
  \/ Document
  \/ ParseDirectionWithin(MaxTimelineElements, TempoDirections)
  \/ ParseNoteWithin(MaxTimelineElements, PlainNotes, {1})
  \/ RecalculateTimePosition

SpecTimeline == Init /\ [][NextTimeline]_vars

\* Documents of key signatures, time signatures, chord symbols and runs of
\* notes, and the calls that aggregate them.
NextAggregate ==
  \/ Document
  \/ ParseKey({0})
  \/ ParseTime({<<3, 4>>})
  \/ ParseHarmony({"C"})
  \/ ParseNote(PlainNotes, {3})
  \/ GetChordSymbols
  \/ GetTimeSignatures
  \/ GetKeySignatures

SpecAggregate == Init /\ [][NextAggregate]_vars

\* Documents of a divisions value, a tempo and runs of notes, and the call
\* of recalculate_time_position.
NextCapture ==
  \/ Document
  \/ ParseDivisions({"2"})
  \/ ParseDirection(Directions({60}, {}) \ Directions({}, {}))
  \/ ParseNote(PlainNotes, {2})
  \/ RecalculateTimePosition

SpecCapture == Init /\ [][NextCapture]_vars

\* Documents with a child of every kind the measure parser knows, at most
\* MaxKindElements children in all.
NextElements ==
  \/ Document
  \/ ParseDivisionsWithin(MaxKindElements, {"2"})
  \/ ParseKeyWithin(MaxKindElements, {0})
  \/ ParseTimeWithin(MaxKindElements, {<<3, 4>>})
  \/ ParseTransposeWithin(MaxKindElements, {1})
  \/ ParseBackupWithin(MaxKindElements, {1})
  \/ ParseForwardWithin(MaxKindElements, {1})
  \/ ParseDirectionWithin(MaxKindElements, Directions({90}, DynamicsValues))
  \/ ParseBarlineWithin(MaxKindElements,
                        {[style |-> Some("light-heavy"), repeat |-> Some("forward")]})
  \/ ParseHarmonyWithin(MaxKindElements, {"C"})
  \/ ParseNoteWithin(MaxKindElements, PlainNotes, {1})
  \/ ParseOtherWithin(MaxKindElements)

SpecElements == Init /\ [][NextElements]_vars

\* Documents of 6/8 and 4/4 time signatures and runs of three or six notes.
NextPickup ==
  \/ Document
  \/ ParseTime({<<6, 8>>, <<4, 4>>})
  \/ ParseNote(PlainNotes, {3, 6})

SpecPickup == Init /\ [][NextPickup]_vars

\* Documents of barlines and ignored elements.
NextBarline ==
  \/ Document
  \/ ParseBarline(Barlines)
  \/ ParseOther

SpecBarline == Init /\ [][NextBarline]_vars

\* Documents of a 4/4 time signature and runs of one, two or four notes.
NextReturn ==
  \/ Document
  \/ ParseTime({<<4, 4>>})
  \/ ParseNote(PlainNotes, {1, 2, 4})

SpecReturn == Init /\ [][NextReturn]_vars


\* ------------------------------------------------------------------- claims
\* The children of measure m, by position, whose tag is one of tags.
Tagged(m, tags) == {i \in DOMAIN m.xml_measure : m.xml_measure[i].tag \in tags}

AttributeTags == {"divisions", "key", "time", "transpose"}

SamePair(ts, n, d) == ~IsNone(ts) /\ The(ts).numerator = n /\ The(ts).denominator = d

\* A step that reads one more child of the measure and finds it tagged `tag`.
Reads(tag) ==
  /\ pc = "measure"
  /\ Len(measure'.xml_measure) = Len(measure.xml_measure) + 1
  /\ measure'.xml_measure[Len(measure'.xml_measure)].tag = tag

\* A step in which _fix_time_signature returns: the measure is complete.
Fixes == pc = "measure" /\ pc' = "part"

NoTempoIn(ms) ==
  \A i \in DOMAIN ms : \A j \in DOMAIN ms[i].xml_measure :
    ms[i].xml_measure[j].tag = "direction" => IsNone(ms[i].xml_measure[j].tempo)

DefaultTempo == [qpm |-> FromInt(120), time_position |-> FZero, xml_position |-> 0]

\* `count` consecutive voice-1 notes of one tick each
Quarters(count) ==
  [tag |-> "note", voice |-> 1, is_in_chord |-> FALSE, duration |-> 1, count |-> count]

TickDurations == 0..3

\* C1: in a parser state with divisions >= 1, a <backup> of n ticks followed
\* at once by a <forward> of n ticks leaves time_position and xml_position
\* as they were before the backup.
C1_BackupForwardRoundTrip ==
  (pc = "measure" /\ state.divisions >= 1) =>
    \A n \in TickDurations :
      LET b == _parse_backup(state, measure, n)
          f == _parse_forward(b.state, b.measure, n)
      IN /\ f.state.time_position = state.time_position
         /\ f.state.xml_position = state.xml_position

\* C2: with the global time signature 4/4, a measure with no attributes and
\* no notes leaves the global time signature 4/4.
C2_EmptyMeasureKeepsSignature ==
  [][(/\ Fixes
      /\ SamePair(state.time_signature, 4, 4)
      /\ Tagged(measure, AttributeTags \cup {"note"}) = {}
      /\ measure.duration = 0)
     => SamePair(state'.time_signature, 4, 4)]_vars

\* C3: when a global time signature exists and the measure's voice-1 duration
\* is less than its numerator, _fix_time_signature gives the measure a new
\* time signature whose (numerator, denominator) differs from the prevailing
\* one, and makes it the global one, whether or not the measure declared a
\* <time> of its own.
C3_PickupInstallsNewSignature ==
  [][(/\ Fixes
      /\ ~IsNone(state.time_signature)
      /\ measure.duration < The(state.time_signature).numerator)
     => LET new == part'[Len(part')].time_signature
            old == The(state.time_signature)
        IN /\ ~IsNone(new)
           /\ <<The(new).numerator, The(new).denominator>>
                # <<old.numerator, old.denominator>>
           /\ new # measure.time_signature
           /\ The(new).xml_position = measure.start_xml_position
           /\ The(new).time_position = measure.start_time_position
           /\ state'.time_signature = new]_vars

\* C3 witness: a completed measure that declared 4/4, held one quarter note
\* and carries the pickup signature 1/4, which is the global one.
C3_Witness ==
  /\ pc = "part"
  /\ part # <<>>
  /\ LET m == part[Len(part)]
     IN /\ \E i \in Tagged(m, {"time"}) : m.xml_measure[i].beats = 4
        /\ m.duration = 1
        /\ SamePair(m.time_signature, 1, 4)
        /\ state.time_signature = m.time_signature

\* C4: divisions 1, one part; measure 1 declares no time signature and holds
\* four voice-1 quarter notes, measure 2 declares 3/4 and holds three: then
\* measure 1 has 4/4, measure 2 has 3/4, and the global signature is 3/4.
C4_TwoMeasureScore ==
  (/\ pc = "part"
   /\ parts = <<>>
   /\ Len(part) = 2
   /\ state.divisions = 1
   /\ part[1].xml_measure = <<Quarters(4)>>
   /\ part[2].xml_measure =
        <<[tag |-> "time", beats |-> 3, beat_type |-> 4], Quarters(3)>>)
  => /\ SamePair(part[1].time_signature, 4, 4)
     /\ SamePair(part[2].time_signature, 3, 4)
     /\ SamePair(state.time_signature, 3, 4)

\* C5: a <transpose> with chromatic shift s sets state.transpose to s; if the
\* measure has a key signature with key k, its key becomes v = k + t, where t
\* in 0..11 is congruent to -5*s modulo 12, or, if v > 6, the value in -5..0
\* congruent to v modulo 6; k = 0 and s = 2 give 2.  Without a key signature
\* nothing but state.transpose changes.
C5_Transpose ==
  [][Reads("transpose") =>
      LET s == measure'.xml_measure[Len(measure'.xml_measure)].chromatic
      IN /\ pc' = "measure"
         /\ state' = [state EXCEPT !.transpose = s]
         /\ IF IsNone(measure.key_signature)
            THEN measure' = [measure EXCEPT !.xml_measure = measure'.xml_measure]
            ELSE LET k == The(measure.key_signature).key
                     t == CHOOSE x \in 0..11 : (x + 5 * s) % 12 = 0
                     v == k + t
                     new == The(measure'.key_signature).key
                 IN /\ IF v > 6 THEN new \in -5..0 /\ (v - new) % 6 = 0
                               ELSE new = v
                    /\ (k = 0 /\ s = 2) => new = 2
                    /\ measure' = [measure EXCEPT
                                     !.xml_measure = measure'.xml_measure,
                                     !.key_signature = Some([The(@) EXCEPT !.key = new])]]_vars

\* C5 witness: key 5 transposed by -2 wraps to -3.
C5_Witness ==
  /\ pc = "measure"
  /\ Len(measure.xml_measure) = 2
  /\ measure.xml_measure[1] = [tag |-> "key", fifths |-> 5]
  /\ measure.xml_measure[2] = [tag |-> "transpose", chromatic |-> -2]
  /\ The(measure.key_signature).key = -3
  /\ state.transpose = -2

\* C6: for a document none of whose measures holds a <sound> with a tempo,
\* get_tempos returns exactly one Tempo, with qpm 120 at position 0.
C6_DefaultTempo ==
  (pc = "parsed" /\ call = "get_tempos" /\ NoTempoIn(Concat(parts)))
    => ret = <<DefaultTempo>>

\* C6 witness: get_tempos has returned for a document without tempos whose
\* clocks have moved.
C6_Witness ==
  /\ pc = "parsed"
  /\ call = "get_tempos"
  /\ NoTempoIn(Concat(parts))
  /\ state.xml_position > 0
  /\ ret = <<DefaultTempo>>

\* C7: get_tempos returns the tempo events of the first part in measure
\* order; when the first part has none it returns exactly one Tempo with qpm
\* 120 at position 0, whatever the other parts hold.
C7_FirstPartTempos ==
  (pc = "parsed" /\ call = "get_tempos") =>
    IF parts = <<>> \/ NoTempoIn(<<>> \o (IF parts = <<>> THEN <<>> ELSE parts[1]))
    THEN ret = <<DefaultTempo>>
    ELSE LET sounds == Concat([i \in 1..Len(parts[1]) |->
                         SelectSeq(parts[1][i].xml_measure,
                                   LAMBDA c : c.tag = "direction" /\ ~IsNone(c.tempo))])
         IN /\ Len(ret) = Len(sounds)
            /\ \A i \in 1..Len(ret) : ret[i].qpm = FromInt(The(sounds[i].tempo))

\* C8: a second recalculate_time_position right after a first leaves every
\* note's and every tempo's time_position as the first call left it.
C8_RecalculateIdempotent ==
  (pc = "parsed" /\ call = "recalculate_time_position")
    => recalculate_time_position(parts, state).parts = parts

\* C8 witness: recalculate_time_position has run on a document whose first
\* part has two tempos and a note that no longer starts at time 0.
C8_Witness ==
  /\ pc = "parsed"
  /\ call = "recalculate_time_position"
  /\ Len(get_tempos(parts, state)) >= 2
  /\ \E i \in DOMAIN parts : \E j \in DOMAIN parts[i] : \E k \in DOMAIN parts[i][j].notes :
       parts[i][j].notes[k].time_position # FZero

\* C9: a <time> element raises MultipleTimeSignatureException exactly when
\* the measure has already read a <time> element, and then the measure is not
\* added to the part; the global time signature plays no role.
C9_SecondTimeRaises ==
  [][Reads("time") =>
      /\ (Tagged(measure, {"time"}) # {})
           <=> (pc' = "error" /\ exception' = "MultipleTimeSignatureException")
      /\ (Tagged(measure, {"time"}) = {}) <=> (pc' = "measure")
      /\ part' = part
      /\ parts' = parts]_vars

\* C9 witness: the first measure declared a time signature, the second read
\* one <time> without an exception and raised at its second.
C9_Witness ==
  /\ pc = "error"
  /\ exception = "MultipleTimeSignatureException"
  /\ Len(part) = 1
  /\ Tagged(part[1], {"time"}) # {}
  /\ Cardinality(Tagged(measure, {"time"})) = 2

\* C10: state.divisions is at least 1 in every reachable parser state.
C10_DivisionsPositive == state.divisions >= 1

\* Every note of the document, in document order.
AllNotes ==
  LET ms == Concat(parts)
  IN Concat([i \in 1..Len(ms) |-> ms[i].notes])

\* The tempos recalculate_time_position works on, sorted by xml_position.
SortedTempos ==
  LET refs == SortTempos(TempoRefs(parts, state))
  IN [i \in 1..Len(refs) |-> refs[i].tempo]

Recalculated ==
  pc = "parsed" /\ call = "recalculate_time_position" /\ exception = "None"

\* C11: after recalculate_time_position, with divisions >= 1, a note at an
\* earlier or equal tick position has an earlier or equal time_position, and
\* a note in tempo segment i has a time_position of at most that of tempo
\* i + 1.
C11_MonotoneTimeline ==
  (Recalculated /\ state.divisions >= 1) =>
    LET notes == AllNotes
        T == SortedTempos
    IN /\ \A a, b \in DOMAIN notes :
            notes[a].xml_position <= notes[b].xml_position
              => ~FLess(notes[b].time_position, notes[a].time_position)
       /\ \A a \in DOMAIN notes : \A i \in 1..(Len(T) - 1) :
            (/\ T[i].xml_position <= notes[a].xml_position
             /\ notes[a].xml_position < T[i + 1].xml_position)
              => ~FLess(T[i + 1].time_position, notes[a].time_position)

\* The parser state after the children `children` are read from state s, as
\* far as the clocks, the tempo and the divisions go.
RECURSIVE ReplayChildren(_, _)
ReplayChildren(s, children) ==
  IF children = <<>> THEN s
  ELSE LET c == Head(children)
           r == CASE c.tag = "divisions" -> _parse_divisions(s, NoMeasure, c.text)
                  [] c.tag = "backup" -> _parse_backup(s, NoMeasure, c.duration)
                  [] c.tag = "forward" -> _parse_forward(s, NoMeasure, c.duration)
                  [] c.tag = "direction" -> _parse_direction(s, NoMeasure, c)
                  [] c.tag = "note" -> _parse_notes(s, NoMeasure, c, c.count)
                  [] OTHER -> Ok(s, NoMeasure)
       IN ReplayChildren(r.state, Tail(children))

\* For each part of ps, the parser state right after its last measure, when
\* the parser enters the first of them in state s.
RECURSIVE PartFinals(_, _)
PartFinals(s, ps) ==
  IF ps = <<>> THEN <<>>
  ELSE LET p == Head(ps)
           s0 == [s EXCEPT !.time_position = FZero, !.xml_position = 0]
           s1 == ReplayChildren(s0, Concat([j \in 1..Len(p) |-> p[j].xml_measure]))
       IN <<s1>> \o PartFinals(s1, Tail(ps))

\* t is the greatest of the floats fs.
IsFMax(t, fs) == t \in fs /\ \A f \in fs : ~FLess(t, f)

IsMax(n, ns) == n \in ns /\ \A k \in ns : k <= n

FinalTimes == LET f == PartFinals(MusicXMLParserState, parts)
              IN {f[i].time_position : i \in DOMAIN f}

FinalTicks == LET f == PartFinals(MusicXMLParserState, parts)
              IN {f[i].xml_position : i \in DOMAIN f}

\* C12 as stated: in a constructed document with a part, total_time_secs is
\* the greatest final time_position of the parts and total_time_duration the
\* greatest final xml_position.
C12_TotalsAreMaxima ==
  (pc = "parsed" /\ parts # <<>>) =>
    /\ IsFMax(total_time_secs, FinalTimes)
    /\ IsMax(total_time_duration, FinalTicks)

\* C12 amended: in a constructed document total_time_secs is the greatest of
\* 0 and the parts' final time_positions, total_time_duration the greatest
\* of 0 and their final xml_positions, and no step lowers either total.
C12_TotalsAreMaximaFromZero ==
  /\ [](pc = "parsed" =>
          /\ IsFMax(total_time_secs, {FZero} \cup FinalTimes)
          /\ IsMax(total_time_duration, {0} \cup FinalTicks))
  /\ [][/\ ~FLess(total_time_secs', total_time_secs)
        /\ total_time_duration' >= total_time_duration]_vars

\* C12 witness: a constructed document of two parts, the first ending at
\* tick 1 and the second, rewound, at tick -3: the totals are the first's.
C12_Witness ==
  /\ pc = "parsed"
  /\ Len(parts) = 2
  /\ FinalTicks = {1, -3}
  /\ state.xml_position = -3
  /\ total_time_duration = 1
  /\ FLess(FZero, total_time_secs)

\* The measure-level records a scan over all parts and measures meets.
MeasureChordSymbols ==
  LET ms == Concat(parts)
  IN Concat([i \in 1..Len(ms) |-> ms[i].chord_symbols])

MeasureTimeSignatures ==
  LET ms == SelectSeq(Concat(parts), LAMBDA m : ~IsNone(m.time_signature))
  IN [i \in 1..Len(ms) |-> The(ms[i].time_signature)]

MeasureKeySignatures ==
  LET ms == SelectSeq(Concat(parts), LAMBDA m : ~IsNone(m.key_signature))
  IN [i \in 1..Len(ms) |-> The(ms[i].key_signature)]

\* The place in entries of the first entry equal to x.
FirstEqual(entries, x, Eq(_, _)) ==
  CHOOSE i \in DOMAIN entries :
    Eq(entries[i], x) /\ \A j \in 1..(i - 1) : ~Eq(entries[j], x)

\* result holds no two equal entries, holds an equal of every entry, and
\* holds the first of each class of equal entries, in the order of entries.
Aggregates(result, entries, Eq(_, _)) ==
  /\ \A i, j \in DOMAIN result : i < j => ~Eq(result[i], result[j])
  /\ \A i \in DOMAIN entries : \E j \in DOMAIN result : Eq(entries[i], result[j])
  /\ entries # <<>> =>
       /\ \A j \in DOMAIN result : \E i \in DOMAIN entries : Eq(entries[i], result[j])
       /\ \A j \in DOMAIN result :
            result[j] = entries[FirstEqual(entries, result[j], Eq)]
       /\ \A i, j \in DOMAIN result :
            i < j => FirstEqual(entries, result[i], Eq) < FirstEqual(entries, result[j], Eq)
  /\ (entries = <<>> /\ call # "get_key_signatures") => result = <<>>

\* C13: get_chord_symbols, get_time_signatures and get_key_signatures return
\* a list without two equal entries that holds an equal of every measure
\* record, in the order of first occurrence over parts and measures, and
\* the calls leave the measures as they were.
C13_Aggregation ==
  /\ [](/\ (pc = "parsed" /\ call = "get_chord_symbols")
            => Aggregates(ret, MeasureChordSymbols, ChordSymbolEq)
        /\ (pc = "parsed" /\ call = "get_time_signatures")
            => Aggregates(ret, MeasureTimeSignatures, TimeSignatureEq)
        /\ (pc = "parsed" /\ call = "get_key_signatures")
            => Aggregates(ret, MeasureKeySignatures, KeySignatureEq))
  /\ [][pc = "parsed" => parts' = parts]_vars

\* C13 witness: get_time_signatures has returned fewer time signatures than
\* the measures hold, two of them with the same pair at different ticks.
C13_Witness ==
  /\ pc = "parsed"
  /\ call = "get_time_signatures"
  /\ Len(ret) < Len(MeasureTimeSignatures)
  /\ \E i, j \in DOMAIN MeasureTimeSignatures :
       /\ TimeSignatureEq(MeasureTimeSignatures[i], MeasureTimeSignatures[j])
       /\ MeasureTimeSignatures[i].xml_position # MeasureTimeSignatures[j].xml_position

\* C14: when _fix_time_signature finds a global time signature G, it
\* installs the synthesized signature on the measure and the state exactly
\* when the voice-1 duration is less than G's numerator, or the measure
\* declared none and duration / (4 * divisions) differs from G as a
\* fraction; otherwise it leaves both the measure's and the global time
\* signature as they were.
C14_InstallExactlyWhen ==
  [][(Fixes /\ ~IsNone(state.time_signature)) =>
      LET G == The(state.time_signature)
          pickup == measure.duration < G.numerator
          differs == measure.duration * G.denominator
                       # G.numerator * 4 * state.divisions
          new == part'[Len(part')].time_signature
      IN IF pickup \/ (IsNone(measure.time_signature) /\ differs)
         THEN /\ ~IsNone(new)
              /\ new # measure.time_signature
              /\ new # state.time_signature
              /\ The(new).xml_position = measure.start_xml_position
              /\ The(new).time_position = measure.start_time_position
              /\ state'.time_signature = new
         ELSE /\ new = measure.time_signature
              /\ state'.time_signature = state.time_signature]_vars

\* C14 witness: a completed measure that declared 3/4 and held four quarter
\* notes keeps 3/4, which stays the global signature.
C14_Witness ==
  /\ pc = "part"
  /\ part # <<>>
  /\ LET m == part[Len(part)]
     IN /\ \E i \in Tagged(m, {"time"}) : m.xml_measure[i].beats = 3
        /\ m.duration = 4
        /\ state.divisions = 1
        /\ SamePair(m.time_signature, 3, 4)
        /\ state.time_signature = m.time_signature

\* C15: a <barline> with bar-style light-light sets barline to "double" and
\* with light-heavy to "final"; whatever the bar-style, a repeat with
\* direction forward sets repeat to "start" and one with the backward token
\* the parser accepts sets it to "end".
C15_BarlineAndRepeat ==
  [][(Reads("barline") /\ pc' = "measure") =>
      LET b == measure'.xml_measure[Len(measure'.xml_measure)]
      IN /\ b.style = Some("light-light") => measure'.barline = "double"
         /\ b.style = Some("light-heavy") => measure'.barline = "final"
         /\ b.repeat = Some("forward") => measure'.repeat = "start"
         /\ b.repeat = Some("backword") => measure'.repeat = "end"]_vars

\* C16: the tempo index i that recalculate_time_position uses for a note at
\* tick p has T[i].xml_position <= p < T[i+1].xml_position, or is the last
\* one with T[i].xml_position <= p.
C16_TempoSegment ==
  pc = "parsed" =>
    LET T == SortTempos(TempoRefs(parts, state))
        notes == AllNotes
    IN \A a \in DOMAIN notes :
         LET p == notes[a].xml_position
             i == TempoIndex(T, p, 1)
         IN \/ /\ i < Len(T)
               /\ T[i].tempo.xml_position <= p
               /\ p < T[i + 1].tempo.xml_position
            \/ /\ i = Len(T)
               /\ T[i].tempo.xml_position <= p

\* The place in the children xm of the ti-th <direction> that has a tempo.
TempoChild(xm, ti) ==
  CHOOSE k \in DOMAIN xm :
    /\ xm[k].tag = "direction" /\ ~IsNone(xm[k].tempo)
    /\ Cardinality({j \in 1..k : xm[j].tag = "direction" /\ ~IsNone(xm[j].tempo)}) = ti

\* The divisions in effect when the ti-th tempo of measure mi of the first
\* part was parsed.
DivisionsAt(mi, ti) ==
  LET before == Concat([j \in 1..(mi - 1) |-> parts[1][j].xml_measure])
      xm == parts[1][mi].xml_measure
  IN ReplayChildren(MusicXMLParserState,
                    before \o SubSeq(xm, 1, TempoChild(xm, ti) - 1)).divisions

ReadsTempo ==
  Reads("direction") /\ ~IsNone(measure'.xml_measure[Len(measure'.xml_measure)].tempo)

\* C18: seconds_per_quarter is 60 / qpm in every reachable parser state; a
\* <direction> whose <sound> has a tempo sets both, and no other step
\* changes either.
C18_SecondsPerQuarter ==
  /\ [](state.seconds_per_quarter = FDiv(FromInt(60), state.qpm))
  /\ [][IF ReadsTempo
        THEN LET q == The(measure'.xml_measure[Len(measure'.xml_measure)].tempo)
             IN /\ state'.qpm = FromInt(q)
                /\ state'.seconds_per_quarter = FDiv(FromInt(60), FromInt(q))
        ELSE /\ state'.qpm = state.qpm
             /\ state'.seconds_per_quarter = state.seconds_per_quarter]_vars

\* C18 witness: a tempo of 90 was read and the <forward> after it moved
\* the clock by one quarter at the new tempo.
C18_Witness ==
  /\ pc = "measure"
  /\ Len(measure.xml_measure) = 2
  /\ measure.xml_measure[1].tag = "direction"
  /\ measure.xml_measure[1].tempo = Some(90)
  /\ measure.xml_measure[2].tag = "forward"
  /\ state.divisions = 1
  /\ state.qpm = FromInt(90)
  /\ state.seconds_per_quarter # RoundRat(1, 2, 0)
  /\ state.time_position = FAdd(measure.start_time_position, state.seconds_per_quarter)

\* C19: a <transpose> with chromatic shift s in a measure whose key k is in
\* -6..6 leaves a key in -6..6 that is congruent to k - 5*s modulo 12.
C19_TransposeEnharmonic ==
  [][(/\ Reads("transpose")
      /\ ~IsNone(measure.key_signature)
      /\ The(measure.key_signature).key \in -6..6)
     => LET k == The(measure.key_signature).key
            s == measure'.xml_measure[Len(measure'.xml_measure)].chromatic
            new == The(measure'.key_signature).key
        IN /\ new \in -6..6
           /\ (new - (k - 5 * s)) % 12 = 0]_vars

\* C20: a measure that declares no time signature and whose voice-1
\* duration fills the global signature G exactly (duration * G.denominator =
\* G.numerator * 4 * divisions, divisions >= 1) leaves the global signature
\* as it was and gets no signature of its own.
C20_FullMeasureIsNoPickup ==
  [][(/\ Fixes
      /\ Tagged(measure, {"time"}) = {}
      /\ ~IsNone(state.time_signature)
      /\ state.divisions >= 1
      /\ measure.duration * The(state.time_signature).denominator
            = The(state.time_signature).numerator * 4 * state.divisions)
     => /\ state'.time_signature = state.time_signature
        /\ IsNone(part'[Len(part')].time_signature)]_vars

\* Every child of every measure of the document, in document order.
AllChildren ==
  LET ms == Concat(parts)
  IN Concat([i \in 1..Len(ms) |-> ms[i].xml_measure])

\* The divisions are constant: no <divisions> after the first child of the
\* document.
ConstantDivisions ==
  \A k \in 2..Len(AllChildren) : AllChildren[k].tag # "divisions"

\* The score has no tempo event, or one only, in the first part at tick 0.
SingleTempoAtZero ==
  LET T == SortedTempos
  IN /\ Len(T) = 1
     /\ T[1].xml_position = 0
     /\ \/ NoTempoIn(Concat(parts))
        \/ parts # <<>> /\ ~NoTempoIn(parts[1]) /\ NoTempoIn(Concat(Tail(parts)))

\* C21: with one tempo at tick 0 (or the default tempo) and constant
\* divisions d >= 1, recalculate_time_position gives a note at tick p the
\* time the walk's conversion gives p ticks: (p / d) * (60 / qpm) seconds.
C21_RecalculateMatchesWalk ==
  (Recalculated /\ state.divisions >= 1 /\ ConstantDivisions /\ SingleTempoAtZero) =>
    LET qpm == SortedTempos[1].qpm
        walk == [divisions |-> state.divisions,
                 seconds_per_quarter |-> FDiv(FromInt(60), qpm)]
        notes == AllNotes
    IN \A a \in DOMAIN notes :
         notes[a].time_position = Seconds(walk, notes[a].xml_position)

\* The <time> child of measure m, which has one.
TimeChild(m) == m.xml_measure[CHOOSE k \in Tagged(m, {"time"}) : TRUE]

\* Measure m declared a time signature, has voice-1 notes and was detected
\* as a pickup of the signature it declared.
DeclaredPickup(m) ==
  /\ Tagged(m, {"time"}) # {}
  /\ m.duration >= 1
  /\ m.duration < TimeChild(m).beats

\* C22: after a measure that declares n/m, has notes and is detected as a
\* pickup, a measure without a time signature whose voice-1 duration is one full n/m
\* measure (duration * m = n * 4 * divisions) ends with the global time
\* signature n/m.
C22_FullMeasureAfterPickup ==
  [][(/\ Fixes
      /\ part # <<>>
      /\ DeclaredPickup(part[Len(part)])
      /\ Tagged(measure, {"time"}) = {}
      /\ state.divisions >= 1
      /\ LET t == TimeChild(part[Len(part)])
         IN measure.duration * t.beat_type = t.beats * 4 * state.divisions)
     => LET t == TimeChild(part[Len(part)])
        IN SamePair(state'.time_signature, t.beats, t.beat_type)]_vars

\* The pair n/d is the fraction a/b in lowest terms.
LowestTermsOf(n, d, a, b) ==
  /\ d > 0
  /\ Gcd(Abs(n), d) = 1
  /\ n * b = a * d

====
